---- MODULE Spec2Model ----
(***************************************************************************)
(* Billager: the listing lifecycle of src/App.js as a state machine.       *)
(*                                                                         *)
(* JavaScript strings are sequences of one-character strings, so that     *)
(* trim, toLowerCase, includes and parseInt are computed character by      *)
(* character.  JavaScript numbers are records [nan, val], so that NaN and  *)
(* its comparisons (always false) are kept.                                *)
(***************************************************************************)
EXTENDS Integers, Sequences, FiniteSets, TLC

(***************************************************************************)
(* Bounds of the model.                                                    *)
(***************************************************************************)
MaxOps == 2     \* requests that the user's presses start in one behaviour
MaxCars == 4    \* cars of a listing set that is queried
MaxImages == 3  \* images of a draft
MaxCaptures == 2  \* takePicture and pickImage calls that await their result

(***************************************************************************)
(* Program constants.                                                      *)
(***************************************************************************)
MinYear == 1900

(***************************************************************************)
(* JavaScript numbers and strings.                                         *)
(***************************************************************************)
NaN == [nan |-> TRUE, val |-> 0]
Num(n) == [nan |-> FALSE, val |-> n]

JsLt(a, b) == ~a.nan /\ ~b.nan /\ a.val < b.val
JsGt(a, b) == ~a.nan /\ ~b.nan /\ a.val > b.val
JsSub(a, b) == IF a.nan \/ b.nan THEN NaN ELSE Num(a.val - b.val)

Whitespace == {" "}
Digits == {"0", "1", "2", "3", "4", "5", "6", "7", "8", "9"}

DigitVal(c) ==
  CASE c = "0" -> 0 [] c = "1" -> 1 [] c = "2" -> 2 [] c = "3" -> 3
    [] c = "4" -> 4 [] c = "5" -> 5 [] c = "6" -> 6 [] c = "7" -> 7
    [] c = "8" -> 8 [] c = "9" -> 9

Truthy(s) == s # <<>>

RECURSIVE TrimStart(_)
TrimStart(s) ==
  IF s # <<>> /\ Head(s) \in Whitespace THEN TrimStart(Tail(s)) ELSE s

RECURSIVE TrimEnd(_)
TrimEnd(s) ==
  IF s # <<>> /\ s[Len(s)] \in Whitespace
  THEN TrimEnd(SubSeq(s, 1, Len(s) - 1))
  ELSE s

Trim(s) == TrimEnd(TrimStart(s))

LowerChar(c) ==
  CASE c = "V" -> "v" [] c = "A" -> "a" [] c = "X" -> "x" [] OTHER -> c

ToLowerCase(s) == [i \in 1..Len(s) |-> LowerChar(s[i])]

Includes(s, sub) ==
  \E i \in 0..(Len(s) - Len(sub)) : SubSeq(s, i + 1, i + Len(sub)) = sub

RECURSIVE LeadingDigits(_)
LeadingDigits(s) ==
  IF s # <<>> /\ Head(s) \in Digits
  THEN <<Head(s)>> \o LeadingDigits(Tail(s))
  ELSE <<>>

RECURSIVE DecimalValue(_)
DecimalValue(d) ==
  IF d = <<>> THEN 0
  ELSE 10 * DecimalValue(SubSeq(d, 1, Len(d) - 1)) + DigitVal(d[Len(d)])

\* parseInt(string): leading white space is skipped, one sign is read, then the
\* longest run of decimal digits; no digit at all gives NaN.  (The alphabet of
\* the model holds no "x", so the 0x prefix never arises.)
ParseInt(s) ==
  LET t == TrimStart(s)
      signed == t # <<>> /\ Head(t) \in {"-", "+"}
      neg == t # <<>> /\ Head(t) = "-"
      d == LeadingDigits(IF signed THEN Tail(t) ELSE t)
  IN IF d = <<>> THEN NaN
     ELSE Num(IF neg THEN 0 - DecimalValue(d) ELSE DecimalValue(d))

(***************************************************************************)
(* Drafts: the formData of AddCarScreen and EditCarScreen.                 *)
(***************************************************************************)
TextFields ==
  {"brand", "model", "year", "km", "price", "description",
   "ownerName", "ownerPhone", "ownerEmail"}

DraftFields == TextFields \cup {"images"}

EmptyDraft ==
  [brand |-> <<>>, model |-> <<>>, year |-> <<>>, km |-> <<>>, price |-> <<>>,
   description |-> <<>>, images |-> <<>>,
   ownerName |-> <<>>, ownerPhone |-> <<>>, ownerEmail |-> <<>>]

NoErrors == [f \in {} |-> ""]

Put(m, k, v) == [x \in (DOMAIN m) \cup {k} |-> IF x = k THEN v ELSE m[x]]

\* The null that updateField stores in errors[field].
Null == "null"

(***************************************************************************)
(* AddCarScreen.validateForm / EditCarScreen.validateForm (the same code). *)
(* newErrors is built by the assignments in their order: a later           *)
(* assignment to the same key replaces the earlier message.                *)
(***************************************************************************)
\* A validateForm that tests the required fields without trimming them.
requiredErrorsUntrimmed(formData) ==
  LET missing == {f \in {"brand", "model", "year", "km", "price",
                         "ownerName", "ownerPhone"} : ~Truthy(formData[f])}
  IN [f \in missing |->
        CASE f = "brand" -> "Brand is required"
          [] f = "model" -> "Model is required"
          [] f = "year" -> "Year is required"
          [] f = "km" -> "Mileage is required"
          [] f = "price" -> "Price is required"
          [] f = "ownerName" -> "Name is required"
          [] f = "ownerPhone" -> "Phone is required"]

requiredErrors(formData) ==
  LET e1 == IF ~Truthy(Trim(formData.brand))
            THEN Put(NoErrors, "brand", "Brand is required") ELSE NoErrors
      e2 == IF ~Truthy(Trim(formData.model))
            THEN Put(e1, "model", "Model is required") ELSE e1
      e3 == IF ~Truthy(Trim(formData.year))
            THEN Put(e2, "year", "Year is required") ELSE e2
      e4 == IF ~Truthy(Trim(formData.km))
            THEN Put(e3, "km", "Mileage is required") ELSE e3
      e5 == IF ~Truthy(Trim(formData.price))
            THEN Put(e4, "price", "Price is required") ELSE e4
      e6 == IF ~Truthy(Trim(formData.ownerName))
            THEN Put(e5, "ownerName", "Name is required") ELSE e5
      e7 == IF ~Truthy(Trim(formData.ownerPhone))
            THEN Put(e6, "ownerPhone", "Phone is required") ELSE e6
  IN e7

\* A validateForm whose upper limit of the year is the current year.
yearErrorThisYear(newErrors, formData, thisYear) ==
  IF Truthy(formData.year)
     /\ (JsLt(ParseInt(formData.year), Num(MinYear))
         \/ JsGt(ParseInt(formData.year), Num(thisYear)))
  THEN Put(newErrors, "year", "Invalid year")
  ELSE newErrors

yearError(newErrors, formData, thisYear) ==
  IF Truthy(formData.year)
     /\ (JsLt(ParseInt(formData.year), Num(MinYear))
         \/ JsGt(ParseInt(formData.year), Num(thisYear + 1)))
  THEN Put(newErrors, "year", "Invalid year")
  ELSE newErrors

\* A validateForm that rejects a mileage of 0 too.
kmErrorZero(newErrors, formData) ==
  IF Truthy(formData.km) /\ JsLt(ParseInt(formData.km), Num(1))
  THEN Put(newErrors, "km", "Invalid mileage")
  ELSE newErrors

kmError(newErrors, formData) ==
  IF Truthy(formData.km) /\ JsLt(ParseInt(formData.km), Num(0))
  THEN Put(newErrors, "km", "Invalid mileage")
  ELSE newErrors

\* A validateForm that rejects a price that is no number.
priceErrorUnparsable(newErrors, formData) ==
  IF Truthy(formData.price)
     /\ (ParseInt(formData.price).nan \/ JsLt(ParseInt(formData.price), Num(0)))
  THEN Put(newErrors, "price", "Invalid price")
  ELSE newErrors

priceError(newErrors, formData) ==
  IF Truthy(formData.price) /\ JsLt(ParseInt(formData.price), Num(0))
  THEN Put(newErrors, "price", "Invalid price")
  ELSE newErrors

\* A validateForm that asks for the @ in an empty email too.
emailErrorEmpty(newErrors, formData) ==
  IF ~Includes(formData.ownerEmail, <<"@">>)
  THEN Put(newErrors, "ownerEmail", "Invalid email address")
  ELSE newErrors

emailError(newErrors, formData) ==
  IF Truthy(formData.ownerEmail) /\ ~Includes(formData.ownerEmail, <<"@">>)
  THEN Put(newErrors, "ownerEmail", "Invalid email address")
  ELSE newErrors

validateForm(formData, thisYear) ==
  emailError(
    priceError(
      kmError(
        yearError(requiredErrors(formData), formData, thisYear),
        formData),
      formData),
    formData)

\* Object.keys(newErrors).length === 0
isValid(newErrors) == DOMAIN newErrors = {}

\* updateField(field, value): the draft gets the value, errors[field] gets null.
updateFieldData(formData, field, value) == [formData EXCEPT ![field] = value]
updateFieldErrors(errs, field) == Put(errs, field, Null)

\* A run of updateField calls, one per text field in turn, that types draft d
\* into the form; the images of the form are not typed.
typedData(formData, d) == [d EXCEPT !.images = formData.images]
typedErrors(errs) == [f \in (DOMAIN errs) \cup TextFields |->
                        IF f \in TextFields THEN Null ELSE errs[f]]

(***************************************************************************)
(* The cars table behind supabase.from('cars').  A row holds the columns   *)
(* the requests name; id, created_at and updated_at are set by the server  *)
(* on insert.  The table is kept in insertion order, which is the order of *)
(* created_at because the server's clock advances with every insert.       *)
(***************************************************************************)
Reverse(s) == [i \in 1..Len(s) |-> s[Len(s) + 1 - i]]

\* An insert that stores the images of the draft last first.
insertedRowReversed(carData, userId, id, now) ==
  [id |-> id, user_id |-> userId,
   brand |-> carData.brand, model |-> carData.model, year |-> carData.year,
   km |-> carData.km, price |-> carData.price, images |-> Reverse(carData.images),
   created_at |-> now, updated_at |-> now]

insertedRow(carData, userId, id, now) ==
  [id |-> id, user_id |-> userId,
   brand |-> carData.brand, model |-> carData.model, year |-> carData.year,
   km |-> carData.km, price |-> carData.price, images |-> carData.images,
   created_at |-> now, updated_at |-> now]

updatedRow(row, carData, now) ==
  [row EXCEPT !.brand = carData.brand, !.model = carData.model,
              !.year = carData.year, !.km = carData.km,
              !.price = carData.price, !.images = carData.images,
              !.updated_at = now]

\* A select that leaves out the order, and gets the rows as they were inserted.
selectUnordered(tbl) == tbl

\* .select('*').order('created_at', { ascending: false })
selectAll(tbl) == Reverse(tbl)

\* .update(...).eq('id', carId)
updateWhereId(tbl, carId, carData, now) ==
  [i \in 1..Len(tbl) |->
     IF tbl[i].id = carId THEN updatedRow(tbl[i], carData, now) ELSE tbl[i]]

\* .delete().eq('id', carId)
deleteWhereId(tbl, carId) == SelectSeq(tbl, LAMBDA r : r.id # carId)

RowIds(rows) == {rows[i].id : i \in 1..Len(rows)}
RowsWithId(rows, id) == SelectSeq(rows, LAMBDA r : r.id = id)

\* car.f || dflt for a text or list property f that the row may not have
PropOr(car, f, dflt) ==
  IF f \in DOMAIN car /\ car[f] # <<>> THEN car[f] ELSE dflt

\* The initial formData of EditCarScreen.
editFormData(car) ==
  [brand |-> car.brand, model |-> car.model, year |-> car.year,
   km |-> car.km, price |-> car.price,
   description |-> PropOr(car, "description", <<>>),
   images |-> PropOr(car, "images", <<>>),
   ownerName |-> PropOr(car, "ownerName", <<>>),
   ownerPhone |-> PropOr(car, "ownerPhone", <<>>),
   ownerEmail |-> PropOr(car, "ownerEmail", <<>>)]

(***************************************************************************)
(* filteredAndSortedCars.                                                  *)
(***************************************************************************)
matchesQuery(car, searchQuery) ==
  LET query == ToLowerCase(searchQuery)
  IN \/ Includes(ToLowerCase(car.brand), query)
     \/ Includes(ToLowerCase(car.model), query)
     \/ Includes(car.year, query)

filterCars(carList, searchQuery) ==
  SelectSeq(carList, LAMBDA car : matchesQuery(car, searchQuery))

\* parseInt(car.f || 0)
IntOrZero(car, f) ==
  IF f \in DOMAIN car /\ Truthy(car[f]) THEN ParseInt(car[f]) ELSE Num(0)

\* new Date(car.createdAt) as a number: the rows of the table have the column
\* created_at and no property createdAt, and new Date(undefined) is an
\* invalid date, whose number is NaN.
DateNumber(car) ==
  IF "createdAt" \in DOMAIN car THEN Num(car.createdAt) ELSE NaN

compareCars(sortBy, a, b) ==
  CASE sortBy = "price" -> JsSub(IntOrZero(b, "price"), IntOrZero(a, "price"))
    [] sortBy = "km" -> JsSub(IntOrZero(a, "km"), IntOrZero(b, "km"))
    [] OTHER -> JsSub(DateNumber(b), DateNumber(a))

\* Array.prototype.sort reads the comparator's sign, and NaN as +0.
Sign(v) == IF v.nan THEN 0 ELSE IF v.val < 0 THEN -1 ELSE IF v.val > 0 THEN 1 ELSE 0
Cmp(sortBy, a, b) == Sign(compareCars(sortBy, a, b))

\* ECMA-262 "consistent comparator" for the elements of s: the comparator
\* splits them into equivalence classes that are totally ordered.
Consistent(sortBy, s) ==
  LET E == {s[i] : i \in 1..Len(s)}
  IN /\ \A a \in E : Cmp(sortBy, a, a) = 0
     /\ \A a, b \in E : Cmp(sortBy, a, b) = 0 - Cmp(sortBy, b, a)
     /\ \A a, b, c \in E :
          /\ (Cmp(sortBy, a, b) = 0 /\ Cmp(sortBy, b, c) = 0)
               => Cmp(sortBy, a, c) = 0
          /\ (Cmp(sortBy, a, b) < 0 /\ Cmp(sortBy, b, c) < 0)
               => Cmp(sortBy, a, c) < 0
          /\ (Cmp(sortBy, a, b) < 0 /\ Cmp(sortBy, b, c) = 0)
               => Cmp(sortBy, a, c) < 0
          /\ (Cmp(sortBy, a, b) = 0 /\ Cmp(sortBy, b, c) < 0)
               => Cmp(sortBy, a, c) < 0

RECURSIVE InsertStable(_, _, _)
InsertStable(sortBy, s, x) ==
  IF s # <<>> /\ Cmp(sortBy, s[Len(s)], x) > 0
  THEN Append(InsertStable(sortBy, SubSeq(s, 1, Len(s) - 1), x), s[Len(s)])
  ELSE Append(s, x)

RECURSIVE StableSort(_, _)
StableSort(sortBy, s) ==
  IF s = <<>> THEN <<>>
  ELSE InsertStable(sortBy, StableSort(sortBy, SubSeq(s, 1, Len(s) - 1)), s[Len(s)])

Rearrangements(s) ==
  {[i \in 1..Len(s) |-> s[p[i]]] : p \in Permutations(1..Len(s))}

\* filtered.sort(comparator): with a consistent comparator the result is the
\* stable sort (ECMAScript 2019); with an inconsistent one the order is
\* implementation-defined, and any rearrangement of the elements may come out.
sortOutcomes(sortBy, s) ==
  IF Consistent(sortBy, s) THEN {StableSort(sortBy, s)} ELSE Rearrangements(s)

filteredAndSortedCars(carList, searchQuery, sortBy) ==
  sortOutcomes(sortBy, filterCars(carList, searchQuery))

(***************************************************************************)
(* The state of the program.                                               *)
(*                                                                         *)
(* An optional value (user, selectedCar, a response) is a sequence of      *)
(* length 0 (null) or 1.                                                   *)
(***************************************************************************)
VARIABLES
  loading,       \* App: loading
  user,          \* App: user
  screen,        \* App: screen
  cars,          \* App: cars
  selectedCar,   \* App: selectedCar
  searchQuery,   \* App: searchQuery
  sortBy,        \* App: sortBy
  listed,        \* App: the memoised filteredAndSortedCars
  formData,      \* AddCarScreen / EditCarScreen: formData of the mounted form
  errors,        \* AddCarScreen / EditCarScreen: errors of the mounted form
  showCamera,    \* AddCarScreen / EditCarScreen: showCamera of the mounted form
  captures,      \* the takePicture and pickImage calls that await the camera or
                 \* the photo library, oldest first
  isLogin,       \* AuthScreen: isLogin
  alerts,        \* the Alert.alert dialogs on screen, oldest first
  tasks,         \* the calls of async functions that await a reply, oldest first
  table,         \* the rows of the cars table
  users,         \* the rows of the users table
  storedUser,    \* AsyncStorage: the item '@user'
  nextId,        \* the id the server gives the next inserted row
  clock,         \* the time, advanced by every reading of it
  thisYear,      \* new Date().getFullYear()
  ops            \* the requests started so far by the user's presses

vars ==
  <<loading, user, screen, cars, selectedCar, searchQuery, sortBy, listed,
    formData, errors, showCamera, captures, isLogin, alerts, tasks, table, users,
    storedUser, nextId, clock, thisYear, ops>>

ThisYear == 2026

\* The one account that the users table holds when the program starts, and
\* that the model signs in with.
Password == <<"s", "e", "c", "r", "e", "t">>

Account ==
  [id |-> 1, username |-> <<"N">>, email |-> <<"a">>, password |-> Password,
   phone |-> Num(1)]

\* What the user types into the boxes of AuthScreen.
NoCred == [email |-> <<>>, password |-> <<>>, username |-> <<>>, phone |-> <<>>]
Credentials(typed) ==
  CASE typed = "right" -> [NoCred EXCEPT !.email = <<"a", " ">>, !.password = Password]
    [] typed = "wrong" -> [NoCred EXCEPT !.email = <<"a">>, !.password = <<"q">>]
    [] OTHER -> NoCred

SignUpForms ==
  {[email |-> e, password |-> pw, username |-> <<"M">>, phone |-> ph] :
     e \in {<<"a", " ">>, <<"b">>}, pw \in {Password, <<"q">>},
     ph \in {<<>>, <<"2">>}}

\* What the user types.
DraftA ==
  [brand |-> <<"V">>, model |-> <<"a">>, year |-> <<"2", "0", "2", "0">>,
   km |-> <<"5">>, price |-> <<"7">>, description |-> <<"d">>, images |-> <<>>,
   ownerName |-> <<"N">>, ownerPhone |-> <<"1">>, ownerEmail |-> <<>>]

DraftB ==
  [brand |-> <<"A">>, model |-> <<"x">>, year |-> <<"1", "9", "9", "9">>,
   km |-> <<"9">>, price |-> <<"a">>, description |-> <<>>, images |-> <<>>,
   ownerName |-> <<"M">>, ownerPhone |-> <<"2">>, ownerEmail |-> <<"a", "@">>]

DraftBad == [DraftA EXCEPT !.brand = <<" ">>, !.year = <<"1", "8", "9", "9">>]

(***************************************************************************)
(* Calls in flight.  A task is one call of an async function, suspended at *)
(* an await: pc names the request it awaits, resp is empty until the       *)
(* backend has answered, and usr, carId, carData, now are what the call's  *)
(* closure holds.  wrote keeps the reply to the write of a mutation while  *)
(* the mutation awaits its loadCars.  A reply holds error and data as the  *)
(* client gets them; for an update or a delete, which return no rows, data *)
(* and affected record what the server did: the table as the statement     *)
(* found it, and the number of rows the filter matched.                    *)
(***************************************************************************)
NoResp == <<>>
Reply(failed, data, affected) ==
  <<[error |-> failed, data |-> data, affected |-> affected]>>

Task(kind, pc, usr, carId, carData, now, cred) ==
  [kind |-> kind, pc |-> pc, usr |-> usr, carId |-> carId,
   carData |-> carData, now |-> now, cred |-> cred, resp |-> NoResp,
   wrote |-> NoResp]

LoadCarsTask(usr) == Task("loadCars", "select", usr, 0, EmptyDraft, 0, NoCred)

Remove(s, i) == SubSeq(s, 1, i - 1) \o SubSeq(s, i + 1, Len(s))
Replace(s, i, x) == [s EXCEPT ![i] = x]

Awaiting(i, kind, pc) ==
  /\ i \in 1..Len(tasks)
  /\ tasks[i].kind = kind
  /\ tasks[i].pc = pc

Sent(i, pc) ==
  /\ i \in 1..Len(tasks)
  /\ tasks[i].pc = pc
  /\ tasks[i].resp = NoResp

Answered(i, kind, pc) ==
  /\ Awaiting(i, kind, pc)
  /\ tasks[i].resp # NoResp

ErrorAlert(text) == [kind |-> "error", text |-> text, carId |-> 0, usr |-> <<>>]
ConfirmAlert(carId, usr) ==
  [kind |-> "confirm", text |-> "Delete Car", carId |-> carId, usr |-> usr]

(***************************************************************************)
(* What App renders (lines 371-433), and the state of the mounted form.    *)
(***************************************************************************)
View(l, u, sc, sel) ==
  IF l THEN "loading"
  ELSE IF u = <<>> THEN "auth"
  ELSE IF sc = "add" THEN "add"
  ELSE IF sc = "edit" /\ sel # <<>> THEN "edit"
  ELSE IF sc = "details" /\ sel # <<>> THEN "details"
  ELSE "home"

CurrentView == View(loading, user, screen, selectedCar)

\* A form keeps its state while it stays mounted, starts from its initial
\* state when it is mounted, and has none when no form is shown.
StaysMounted(l2, u2, sc2, sel2) ==
  LET v2 == View(l2, u2, sc2, sel2)
  IN v2 = CurrentView /\ v2 \in {"add", "edit"}

MountedForm(l2, u2, sc2, sel2) ==
  LET v2 == View(l2, u2, sc2, sel2)
  IN IF StaysMounted(l2, u2, sc2, sel2)
     THEN <<formData, errors, showCamera>>
     ELSE IF v2 = "add" THEN <<EmptyDraft, NoErrors, FALSE>>
     ELSE IF v2 = "edit" THEN <<editFormData(sel2[1]), NoErrors, FALSE>>
     ELSE <<EmptyDraft, NoErrors, FALSE>>

\* AuthScreen is a component that App defines in its body: a render of App
\* with a changed state mounts it anew, with isLogin true.
MountedAuth(l2, u2, sc2, c2, sel2, q2, so2) ==
  IF /\ View(l2, u2, sc2, sel2) = "auth"
     /\ <<l2, u2, sc2, c2, sel2, q2, so2>>
          = <<loading, user, screen, cars, selectedCar, searchQuery, sortBy>>
  THEN isLogin
  ELSE TRUE

\* One render of App after its state was set to the given values.
AppState(l2, u2, sc2, c2, sel2, q2, so2) ==
  /\ loading' = l2
  /\ user' = u2
  /\ screen' = sc2
  /\ cars' = c2
  /\ selectedCar' = sel2
  /\ searchQuery' = q2
  /\ sortBy' = so2
  /\ listed' \in (IF <<c2, q2, so2>> = <<cars, searchQuery, sortBy>>
                  THEN {listed}
                  ELSE filteredAndSortedCars(c2, q2, so2))
  /\ formData' = MountedForm(l2, u2, sc2, sel2)[1]
  /\ errors' = MountedForm(l2, u2, sc2, sel2)[2]
  /\ showCamera' = MountedForm(l2, u2, sc2, sel2)[3]
  \* The takePicture and pickImage calls of an unmounted form go on, and their
  \* updateField no longer reaches a form.
  /\ captures' = IF StaysMounted(l2, u2, sc2, sel2)
                  THEN captures
                  ELSE [k \in 1..Len(captures) |-> [captures[k] EXCEPT !.live = FALSE]]
  /\ isLogin' = MountedAuth(l2, u2, sc2, c2, sel2, q2, so2)

AppUnchanged ==
  UNCHANGED <<loading, user, screen, cars, selectedCar, searchQuery, sortBy,
              listed, formData, errors, showCamera, captures, isLogin>>

Backend == <<table, users, storedUser, nextId>>

\* A press may start a request while the budget of the model lasts.
Starts == ops < MaxOps /\ ops' = ops + 1

\* The photo library is up, over the program, until it returns.
PickerOpen == \E k \in 1..Len(captures) : captures[k].kind = "pickImage"

\* The user can press something: nothing is loading, no dialog is up, and
\* neither the camera of a form nor the photo library covers the view.
CanPress(view) ==
  /\ CurrentView = view
  /\ alerts = <<>>
  /\ ~showCamera
  /\ ~PickerOpen

\* The table that the program finds when it starts: empty, or holding a row
\* that an earlier session of the program inserted.
StartTables == {<<>>, <<insertedRow(DraftB, Account.id, 1, 1)>>}

Init ==
  /\ loading = TRUE
  /\ user = <<>>
  /\ screen = "home"
  /\ cars = <<>>
  /\ selectedCar = <<>>
  /\ searchQuery = <<>>
  /\ sortBy = "date"
  /\ listed = <<>>
  /\ formData = EmptyDraft
  /\ errors = NoErrors
  /\ showCamera = FALSE
  /\ captures = <<>>
  /\ isLogin = TRUE
  /\ alerts = <<>>
  /\ tasks = <<>>
  /\ users = <<Account>>
  /\ table \in StartTables
  /\ storedUser \in {<<>>, <<Account>>}
  /\ nextId = Len(table) + 1
  /\ clock = Len(table)
  /\ thisYear = ThisYear
  /\ ops = 0

(***************************************************************************)
(* Start-up and authentication.                                            *)
(***************************************************************************)
\* The effect of lines 62-76, when AsyncStorage.getItem('@user') answers;
\* a stored user makes the effect of lines 78-82 call loadCars.
loadUser ==
  /\ loading
  /\ \E failed \in BOOLEAN :
       LET u2 == IF failed THEN <<>> ELSE storedUser
       IN /\ AppState(FALSE, u2, screen, cars, selectedCar, searchQuery, sortBy)
          /\ tasks' = IF u2 # <<>> THEN Append(tasks, LoadCarsTask(u2)) ELSE tasks
  /\ UNCHANGED <<alerts, Backend, clock, thisYear, ops>>

\* disabled={authLoading}: a sign-in or sign-up of the screen is in progress.
authLoading == \E i \in 1..Len(tasks) : tasks[i].kind \in {"signIn", "signUp"}

handleSignIn ==
  /\ CanPress("auth")
  /\ isLogin
  /\ ~authLoading
  /\ \E cred \in {"none", "wrong", "right"} :
       IF cred = "none"
       THEN /\ alerts' = Append(alerts, ErrorAlert("Please enter email and password"))
            /\ UNCHANGED tasks
            /\ UNCHANGED ops
       ELSE /\ Starts
            /\ tasks' = Append(tasks, Task("signIn", "login", <<>>, 0, EmptyDraft, 0, Credentials(cred)))
            /\ UNCHANGED alerts
  /\ AppUnchanged
  /\ UNCHANGED <<Backend, clock, thisYear>>

\* from('users').select('*').eq('email', ..).eq('password', ..).single():
\* anything but exactly one row is an error.
dbLogin(i) ==
  /\ Sent(i, "login")
  /\ \E failed \in BOOLEAN :
       LET cred == tasks[i].cred
           rows == SelectSeq(users, LAMBDA r : /\ r.email = Trim(cred.email)
                                               /\ r.password = cred.password)
           found == ~failed /\ Len(rows) = 1
       IN tasks' = Replace(tasks, i,
            [tasks[i] EXCEPT !.resp =
               Reply(~found, IF found THEN <<rows[1]>> ELSE <<>>, 0)])
  /\ AppUnchanged
  /\ UNCHANGED <<alerts, Backend, clock, thisYear, ops>>

signInChecked(i) ==
  /\ Answered(i, "signIn", "login")
  /\ LET r == tasks[i].resp[1]
     IN IF r.error \/ r.data = <<>>
        THEN /\ alerts' = Append(alerts, ErrorAlert("Invalid email or password"))
             /\ tasks' = Remove(tasks, i)
        ELSE /\ tasks' = Replace(tasks, i,
                  [tasks[i] EXCEPT !.pc = "setItem", !.usr = r.data, !.resp = NoResp])
             /\ UNCHANGED alerts
  /\ AppUnchanged
  /\ UNCHANGED <<Backend, clock, thisYear, ops>>

\* AsyncStorage.setItem('@user', ..)
storageSetItem(i) ==
  /\ Sent(i, "setItem")
  /\ \E failed \in BOOLEAN :
       /\ storedUser' = IF failed THEN storedUser ELSE tasks[i].usr
       /\ tasks' = Replace(tasks, i, [tasks[i] EXCEPT !.resp = Reply(failed, <<>>, 0)])
  /\ AppUnchanged
  /\ UNCHANGED <<alerts, table, users, nextId, clock, thisYear, ops>>

signInStored(i) ==
  /\ Answered(i, "signIn", "setItem")
  /\ IF tasks[i].resp[1].error
     THEN /\ alerts' = Append(alerts, ErrorAlert("Login failed"))
          /\ tasks' = Remove(tasks, i)
          /\ AppUnchanged
     ELSE /\ AppState(loading, tasks[i].usr, screen, cars, selectedCar,
                      searchQuery, sortBy)
          /\ tasks' = Replace(tasks, i, LoadCarsTask(tasks[i].usr))
          /\ UNCHANGED alerts
  /\ UNCHANGED <<Backend, clock, thisYear, ops>>

\* onPress={() => setIsLogin(!isLogin)}
switchAuth ==
  /\ CanPress("auth")
  /\ isLogin' = ~isLogin
  /\ UNCHANGED <<loading, user, screen, cars, selectedCar, searchQuery, sortBy,
                 listed, formData, errors, showCamera, captures, alerts, tasks,
                 Backend, clock, thisYear, ops>>

\* What a step of a sign-up leaves of the program but isLogin.
SignUpUnchanged ==
  UNCHANGED <<loading, user, screen, cars, selectedCar, searchQuery, sortBy,
              listed, formData, errors, showCamera, captures>>

handleSignUp ==
  /\ CanPress("auth")
  /\ ~isLogin
  /\ ~authLoading
  /\ \E typed \in SignUpForms :
       IF ~Truthy(typed.email) \/ ~Truthy(typed.password)
          \/ ~Truthy(typed.username) \/ ~Truthy(typed.phone)
       THEN /\ alerts' = Append(alerts, ErrorAlert("Please fill all fields"))
            /\ UNCHANGED <<tasks, ops>>
       ELSE IF Len(typed.password) < 6
       THEN /\ alerts' = Append(alerts,
                  ErrorAlert("Password must be at least 6 characters"))
            /\ UNCHANGED <<tasks, ops>>
       ELSE /\ Starts
            /\ tasks' = Append(tasks,
                  Task("signUp", "check", <<>>, 0, EmptyDraft, 0, typed))
            /\ UNCHANGED alerts
  /\ AppUnchanged
  /\ UNCHANGED <<Backend, clock, thisYear>>

\* The handleSignUp of another copy of the program, on another device, with
\* a form that passes its two tests.
signUpElsewhere ==
  /\ Starts
  /\ \E typed \in SignUpForms :
       /\ Truthy(typed.phone)
       /\ Len(typed.password) >= 6
       /\ tasks' = Append(tasks,
             Task("signUpElsewhere", "check", <<>>, 0, EmptyDraft, 0, typed))
  /\ AppUnchanged
  /\ UNCHANGED <<alerts, Backend, clock, thisYear>>

\* from('users').select('id').eq('email', email.trim())
dbCheckEmail(i) ==
  /\ Sent(i, "check")
  /\ \E failed \in BOOLEAN :
       tasks' = Replace(tasks, i,
         [tasks[i] EXCEPT !.resp =
            Reply(failed,
                  IF failed THEN <<>>
                  ELSE SelectSeq(users, LAMBDA r : r.email = Trim(tasks[i].cred.email)),
                  0)])
  /\ AppUnchanged
  /\ UNCHANGED <<alerts, Backend, clock, thisYear, ops>>

\* existingUsers && existingUsers.length > 0, where existingUsers is the data
\* of the reply and the error of the reply is not read.
emailRegistered(r) == r.data # <<>>

signUpChecked(i) ==
  /\ Answered(i, "signUp", "check")
  /\ IF emailRegistered(tasks[i].resp[1])
     THEN /\ alerts' = Append(alerts,
                ErrorAlert("Email already registered. Please sign in."))
          /\ isLogin' = TRUE
          /\ tasks' = Remove(tasks, i)
     ELSE /\ tasks' = Replace(tasks, i,
                [tasks[i] EXCEPT !.pc = "insertUser", !.resp = NoResp])
          /\ UNCHANGED <<alerts, isLogin>>
  /\ SignUpUnchanged
  /\ UNCHANGED <<Backend, clock, thisYear, ops>>

signUpCheckedElsewhere(i) ==
  /\ Answered(i, "signUpElsewhere", "check")
  /\ tasks' = IF emailRegistered(tasks[i].resp[1])
               THEN Remove(tasks, i)
               ELSE Replace(tasks, i,
                      [tasks[i] EXCEPT !.pc = "insertUser", !.resp = NoResp])
  /\ AppUnchanged
  /\ UNCHANGED <<alerts, Backend, clock, thisYear, ops>>

\* from('users').insert([{...}]).select(): the request names no condition
\* on the rows that the table holds.
dbInsertUser(i) ==
  /\ Sent(i, "insertUser")
  /\ \/ /\ tasks' = Replace(tasks, i, [tasks[i] EXCEPT !.resp = Reply(TRUE, <<>>, 0)])
        /\ UNCHANGED users
     \/ LET typed == tasks[i].cred
            row == [id |-> Len(users) + 1,
                    username |-> Trim(typed.username),
                    email |-> Trim(typed.email),
                    password |-> typed.password,
                    phone |-> ParseInt(typed.phone)]
        IN /\ users' = Append(users, row)
           /\ tasks' = Replace(tasks, i, [tasks[i] EXCEPT !.resp = Reply(FALSE, <<row>>, 1)])
  /\ AppUnchanged
  /\ UNCHANGED <<alerts, table, storedUser, nextId, clock, thisYear, ops>>

signUpInserted(i) ==
  /\ Answered(i, "signUp", "insertUser")
  /\ IF tasks[i].resp[1].error
     THEN /\ alerts' = Append(alerts, ErrorAlert("Sign Up Error"))
          /\ UNCHANGED isLogin
     ELSE /\ alerts' = Append(alerts,
                ErrorAlert("Account created! You can now sign in."))
          /\ isLogin' = TRUE
  /\ tasks' = Remove(tasks, i)
  /\ SignUpUnchanged
  /\ UNCHANGED <<Backend, clock, thisYear, ops>>

signUpInsertedElsewhere(i) ==
  /\ Answered(i, "signUpElsewhere", "insertUser")
  /\ tasks' = Remove(tasks, i)
  /\ AppUnchanged
  /\ UNCHANGED <<alerts, Backend, clock, thisYear, ops>>

\* The program is closed and started again: the state of App is the initial
\* one, the calls in progress on the device are gone, and what the storage
\* and the tables hold stays.
restart ==
  /\ loading' = TRUE
  /\ user' = <<>>
  /\ screen' = "home"
  /\ cars' = <<>>
  /\ selectedCar' = <<>>
  /\ searchQuery' = <<>>
  /\ sortBy' = "date"
  /\ listed' = <<>>
  /\ formData' = EmptyDraft
  /\ errors' = NoErrors
  /\ showCamera' = FALSE
  /\ captures' = <<>>
  /\ isLogin' = TRUE
  /\ alerts' = <<>>
  /\ tasks' = SelectSeq(tasks, LAMBDA t : t.kind = "signUpElsewhere")
  /\ UNCHANGED <<Backend, clock, thisYear, ops>>

handleSignOut ==
  /\ CanPress("home")
  /\ Starts
  /\ tasks' = Append(tasks, Task("signOut", "removeItem", user, 0, EmptyDraft, 0, NoCred))
  /\ AppUnchanged
  /\ UNCHANGED <<alerts, Backend, clock, thisYear>>

\* AsyncStorage.removeItem('@user')
storageRemoveItem(i) ==
  /\ Sent(i, "removeItem")
  /\ \E failed \in BOOLEAN :
       /\ storedUser' = IF failed THEN storedUser ELSE <<>>
       /\ tasks' = Replace(tasks, i, [tasks[i] EXCEPT !.resp = Reply(failed, <<>>, 0)])
  /\ AppUnchanged
  /\ UNCHANGED <<alerts, table, users, nextId, clock, thisYear, ops>>

signOutDone(i) ==
  /\ Answered(i, "signOut", "removeItem")
  /\ IF tasks[i].resp[1].error
     THEN /\ alerts' = Append(alerts, ErrorAlert("Could not sign out"))
          /\ AppUnchanged
     ELSE /\ AppState(loading, <<>>, screen, <<>>, selectedCar, searchQuery, sortBy)
          /\ UNCHANGED alerts
  /\ tasks' = Remove(tasks, i)
  /\ UNCHANGED <<Backend, clock, thisYear, ops>>

(***************************************************************************)
(* loadCars.                                                               *)
(***************************************************************************)
\* from('cars').select('*').order('created_at', { ascending: false })
dbSelect(i) ==
  /\ Sent(i, "select")
  /\ \E failed \in BOOLEAN :
       tasks' = Replace(tasks, i,
         [tasks[i] EXCEPT !.resp =
            Reply(failed, IF failed THEN <<>> ELSE selectAll(table), 0)])
  /\ AppUnchanged
  /\ UNCHANGED <<alerts, Backend, clock, thisYear, ops>>

\* The cars and the alerts that the tail of loadCars (lines 50-59) leaves.
loadedCars(r) == IF r.error THEN cars ELSE r.data
loadedAlerts(r) ==
  IF r.error THEN Append(alerts, ErrorAlert("Could not load cars")) ELSE alerts

loadCarsDone(i) ==
  /\ Answered(i, "loadCars", "select")
  /\ AppState(loading, user, screen, loadedCars(tasks[i].resp[1]), selectedCar,
              searchQuery, sortBy)
  /\ alerts' = loadedAlerts(tasks[i].resp[1])
  /\ tasks' = Remove(tasks, i)
  /\ UNCHANGED <<Backend, clock, thisYear, ops>>

(***************************************************************************)
(* The list view.                                                          *)
(***************************************************************************)
onAddCar ==
  /\ CanPress("home")
  /\ AppState(loading, user, "add", cars, selectedCar, searchQuery, sortBy)
  /\ UNCHANGED <<alerts, tasks, Backend, clock, thisYear, ops>>

handleCarPress ==
  /\ CanPress("home")
  /\ \E k \in 1..Len(listed) :
       AppState(loading, user, "details", cars, <<listed[k]>>, searchQuery, sortBy)
  /\ UNCHANGED <<alerts, tasks, Backend, clock, thisYear, ops>>

\* onChangeText={setSearchQuery} of the search box, with the text typed.
setSearchQuery(q) ==
  /\ CanPress("home")
  /\ AppState(loading, user, screen, cars, selectedCar, q, sortBy)
  /\ UNCHANGED <<alerts, tasks, Backend, clock, thisYear, ops>>

setSortBy ==
  /\ CanPress("home")
  /\ \E k \in {"date", "price", "km"} :
       AppState(loading, user, screen, cars, selectedCar, searchQuery, k)
  /\ UNCHANGED <<alerts, tasks, Backend, clock, thisYear, ops>>

\* The OK button of an error dialog.
dismissAlert ==
  /\ alerts # <<>>
  /\ alerts[Len(alerts)].kind = "error"
  /\ alerts' = SubSeq(alerts, 1, Len(alerts) - 1)
  /\ AppUnchanged
  /\ UNCHANGED <<tasks, Backend, clock, thisYear, ops>>

(***************************************************************************)
(* AddCarScreen and addCar.                                                *)
(***************************************************************************)
typeDraft ==
  /\ CanPress("add") \/ CanPress("edit")
  /\ \E d \in {DraftA, DraftBad} :
       /\ formData' = typedData(formData, d)
       /\ errors' = typedErrors(errors)
  /\ UNCHANGED <<loading, user, screen, cars, selectedCar, searchQuery, sortBy,
                 listed, showCamera, captures, isLogin, alerts, tasks, Backend,
                 clock, thisYear, ops>>

AddCarScreen_onBack ==
  /\ CanPress("add")
  /\ AppState(loading, user, "home", cars, selectedCar, searchQuery, sortBy)
  /\ UNCHANGED <<alerts, tasks, Backend, clock, thisYear, ops>>

\* A handleSave that calls onSave whatever validateForm returns.
saveAlways(data, year) == TRUE

\* if (validateForm()) of handleSave
saveAllowed(data, year) == isValid(validateForm(data, year))

AddCarScreen_handleSave ==
  /\ CanPress("add")
  /\ errors' = validateForm(formData, thisYear)
  /\ \/ /\ saveAllowed(formData, thisYear)
        /\ Starts
        /\ tasks' = Append(tasks, Task("addCar", "insert", user, 0, formData, 0, NoCred))
        /\ UNCHANGED alerts
     \/ /\ ~saveAllowed(formData, thisYear)
        /\ alerts' = Append(alerts, ErrorAlert("Please fill all required fields"))
        /\ UNCHANGED <<tasks, ops>>
  /\ UNCHANGED <<loading, user, screen, cars, selectedCar, searchQuery, sortBy,
                 listed, formData, showCamera, captures, isLogin, Backend, clock,
                 thisYear>>

\* from('cars').insert([{...}]).select()
dbInsert(i) ==
  /\ Sent(i, "insert")
  /\ \/ /\ tasks' = Replace(tasks, i, [tasks[i] EXCEPT !.resp = Reply(TRUE, <<>>, 0)])
        /\ UNCHANGED <<table, nextId, clock>>
     \/ LET row == insertedRow(tasks[i].carData, tasks[i].usr[1].id, nextId, clock + 1)
        IN /\ table' = Append(table, row)
           /\ nextId' = nextId + 1
           /\ clock' = clock + 1
           /\ tasks' = Replace(tasks, i, [tasks[i] EXCEPT !.resp = Reply(FALSE, <<row>>, 1)])
  /\ AppUnchanged
  /\ UNCHANGED <<alerts, users, storedUser, thisYear, ops>>

\* The state a mutation leaves once its loadCars has returned (r is the reply
\* of the select, or empty when loadCars returned without sending one).
afterLoad(r, sc2, sel2) ==
  /\ AppState(loading, user, sc2, IF r = <<>> THEN cars ELSE loadedCars(r[1]),
              sel2, searchQuery, sortBy)
  /\ alerts' = IF r = <<>> THEN alerts ELSE loadedAlerts(r[1])

\* The reply to the write of a mutation has arrived: an error is reported,
\* and otherwise loadCars is called.
afterWrite(i, failure, sc2, sel2) ==
  IF tasks[i].resp[1].error
  THEN /\ alerts' = Append(alerts, ErrorAlert(failure))
       /\ tasks' = Remove(tasks, i)
       /\ AppUnchanged
  \* loadCars returns at once when its closure holds no user.
  ELSE IF tasks[i].usr # <<>>
  THEN /\ tasks' = Replace(tasks, i,
            [tasks[i] EXCEPT !.pc = "select", !.resp = NoResp,
                             !.wrote = tasks[i].resp])
       /\ UNCHANGED alerts
       /\ AppUnchanged
  ELSE /\ afterLoad(<<>>, sc2, sel2)
       /\ tasks' = Remove(tasks, i)

\* An addCar that goes to the list also when the insert has failed.
addCarLeavesForm(i) ==
  /\ Answered(i, "addCar", "insert")
  /\ IF tasks[i].resp[1].error
     THEN /\ alerts' = Append(alerts, ErrorAlert("Could not save car"))
          /\ tasks' = Remove(tasks, i)
          /\ AppState(loading, user, "home", cars, selectedCar, searchQuery, sortBy)
     ELSE afterWrite(i, "Could not save car", "home", selectedCar)
  /\ UNCHANGED <<Backend, clock, thisYear, ops>>

addCarInserted(i) ==
  /\ Answered(i, "addCar", "insert")
  /\ afterWrite(i, "Could not save car", "home", selectedCar)
  /\ UNCHANGED <<Backend, clock, thisYear, ops>>

addCarLoaded(i) ==
  /\ Answered(i, "addCar", "select")
  /\ afterLoad(tasks[i].resp, "home", selectedCar)
  /\ tasks' = Remove(tasks, i)
  /\ UNCHANGED <<Backend, clock, thisYear, ops>>

(***************************************************************************)
(* CarDetailsScreen and deleteCar.                                         *)
(***************************************************************************)
CarDetailsScreen_onBack ==
  /\ CanPress("details")
  /\ AppState(loading, user, "home", cars, <<>>, searchQuery, sortBy)
  /\ UNCHANGED <<alerts, tasks, Backend, clock, thisYear, ops>>

onEdit ==
  /\ CanPress("details")
  /\ AppState(loading, user, "edit", cars, selectedCar, searchQuery, sortBy)
  /\ UNCHANGED <<alerts, tasks, Backend, clock, thisYear, ops>>

\* A deleteCar that sends the delete without asking.
deleteAtOnce ==
  /\ CanPress("details")
  /\ Starts
  /\ tasks' = Append(tasks,
       Task("deleteCar", "delete", user, selectedCar[1].id, EmptyDraft, 0, NoCred))
  /\ AppUnchanged
  /\ UNCHANGED <<alerts, Backend, clock, thisYear>>

\* deleteCar(selectedCar.id): the confirmation dialog comes up.
onDelete ==
  /\ CanPress("details")
  /\ alerts' = Append(alerts, ConfirmAlert(selectedCar[1].id, user))
  /\ AppUnchanged
  /\ UNCHANGED <<tasks, Backend, clock, thisYear, ops>>

confirmCancel ==
  /\ alerts # <<>>
  /\ alerts[Len(alerts)].kind = "confirm"
  /\ alerts' = SubSeq(alerts, 1, Len(alerts) - 1)
  /\ AppUnchanged
  /\ UNCHANGED <<tasks, Backend, clock, thisYear, ops>>

\* The Delete button of the dialog: onPress sends the delete.
confirmDelete ==
  /\ alerts # <<>>
  /\ alerts[Len(alerts)].kind = "confirm"
  /\ Starts
  /\ tasks' = Append(tasks,
       Task("deleteCar", "delete", alerts[Len(alerts)].usr,
            alerts[Len(alerts)].carId, EmptyDraft, 0, NoCred))
  /\ alerts' = SubSeq(alerts, 1, Len(alerts) - 1)
  /\ AppUnchanged
  /\ UNCHANGED <<Backend, clock, thisYear>>

\* from('cars').delete().eq('id', carId): a filter that matches no row is no
\* error to the server.
dbDelete(i) ==
  /\ Sent(i, "delete")
  /\ \/ /\ tasks' = Replace(tasks, i, [tasks[i] EXCEPT !.resp = Reply(TRUE, <<>>, 0)])
        /\ UNCHANGED table
     \/ /\ table' = deleteWhereId(table, tasks[i].carId)
        /\ tasks' = Replace(tasks, i,
             [tasks[i] EXCEPT !.resp =
                Reply(FALSE, table, Len(RowsWithId(table, tasks[i].carId)))])
  /\ AppUnchanged
  /\ UNCHANGED <<alerts, users, storedUser, nextId, clock, thisYear, ops>>

deleteCarDeleted(i) ==
  /\ Answered(i, "deleteCar", "delete")
  /\ afterWrite(i, "Could not delete car", "home", <<>>)
  /\ UNCHANGED <<Backend, clock, thisYear, ops>>

\* A deleteCar that clears the selected car and leaves the screen.
deleteCarKeepsScreen(i) ==
  /\ Answered(i, "deleteCar", "select")
  /\ afterLoad(tasks[i].resp, screen, <<>>)
  /\ tasks' = Remove(tasks, i)
  /\ UNCHANGED <<Backend, clock, thisYear, ops>>

deleteCarLoaded(i) ==
  /\ Answered(i, "deleteCar", "select")
  /\ afterLoad(tasks[i].resp, "home", <<>>)
  /\ tasks' = Remove(tasks, i)
  /\ UNCHANGED <<Backend, clock, thisYear, ops>>

(***************************************************************************)
(* EditCarScreen and updateCar.                                            *)
(***************************************************************************)
EditCarScreen_onBack ==
  /\ CanPress("edit")
  /\ AppState(loading, user, "details", cars, selectedCar, searchQuery, sortBy)
  /\ UNCHANGED <<alerts, tasks, Backend, clock, thisYear, ops>>

\* onSave is updateCar(selectedCar.id, data), which reads the time for
\* updated_at from the device before it sends the update.
EditCarScreen_handleSave ==
  /\ CanPress("edit")
  /\ errors' = validateForm(formData, thisYear)
  /\ \/ /\ saveAllowed(formData, thisYear)
        /\ Starts
        /\ clock' = clock + 1
        \* new Date(): the clock of the device agrees with the server's, or
        \* is behind it (0 is before every time of the server).
        /\ \E now \in {clock + 1, 0} :
             tasks' = Append(tasks,
               Task("updateCar", "update", user, selectedCar[1].id, formData,
                    now, NoCred))
        /\ UNCHANGED alerts
     \/ /\ ~saveAllowed(formData, thisYear)
        /\ alerts' = Append(alerts, ErrorAlert("Please fill all required fields"))
        /\ UNCHANGED <<tasks, clock, ops>>
  /\ UNCHANGED <<loading, user, screen, cars, selectedCar, searchQuery, sortBy,
                 listed, formData, showCamera, captures, isLogin, Backend,
                 thisYear>>

\* from('cars').update({...}).eq('id', carId): a filter that matches no row
\* is no error to the server.
dbUpdate(i) ==
  /\ Sent(i, "update")
  /\ \/ /\ tasks' = Replace(tasks, i, [tasks[i] EXCEPT !.resp = Reply(TRUE, <<>>, 0)])
        /\ UNCHANGED table
     \/ /\ table' = updateWhereId(table, tasks[i].carId, tasks[i].carData, tasks[i].now)
        /\ tasks' = Replace(tasks, i,
             [tasks[i] EXCEPT !.resp =
                Reply(FALSE, table, Len(RowsWithId(table, tasks[i].carId)))])
  /\ AppUnchanged
  /\ UNCHANGED <<alerts, users, storedUser, nextId, clock, thisYear, ops>>

\* An updateCar that goes to the list before it calls loadCars.
updateCarGoesHome(i) ==
  /\ Answered(i, "updateCar", "update")
  /\ IF tasks[i].resp[1].error
     THEN /\ alerts' = Append(alerts, ErrorAlert("Could not update car"))
          /\ tasks' = Remove(tasks, i)
          /\ AppUnchanged
     ELSE /\ tasks' = Replace(tasks, i,
               [tasks[i] EXCEPT !.pc = "select", !.resp = NoResp,
                                !.wrote = tasks[i].resp])
          /\ AppState(loading, user, "home", cars, selectedCar, searchQuery, sortBy)
          /\ UNCHANGED alerts
  /\ UNCHANGED <<Backend, clock, thisYear, ops>>

updateCarUpdated(i) ==
  /\ Answered(i, "updateCar", "update")
  /\ afterWrite(i, "Could not update car", "home", selectedCar)
  /\ UNCHANGED <<Backend, clock, thisYear, ops>>

updateCarLoaded(i) ==
  /\ Answered(i, "updateCar", "select")
  /\ afterLoad(tasks[i].resp, "home", selectedCar)
  /\ tasks' = Remove(tasks, i)
  /\ UNCHANGED <<Backend, clock, thisYear, ops>>

(***************************************************************************)
(* The camera and the photo library of AddCarScreen and EditCarScreen (the *)
(* same code).  takePicture and pickImage are callbacks of the render in   *)
(* which they were pressed: after their await they read the images of that *)
(* render's formData.                                                      *)
(***************************************************************************)
\* What the camera and the photo library supply.
URIs == {"a", "b"}

Capture(kind, images) == [kind |-> kind, images |-> images, live |-> TRUE]

\* updateField('images', value), reaching the form if it is still mounted.
updateImages(k, value) ==
  IF captures[k].live
  THEN /\ formData' = updateFieldData(formData, "images", value)
       /\ errors' = updateFieldErrors(errors, "images")
  ELSE UNCHANGED <<formData, errors>>

\* What a step of the camera or the library leaves of the program.
CaptureUnchanged ==
  UNCHANGED <<loading, user, screen, cars, selectedCar, searchQuery, sortBy,
              listed, isLogin, tasks, Backend, clock, thisYear, ops>>

OnForm == CurrentView \in {"add", "edit"}

openCamera ==
  /\ OnForm
  /\ CanPress(CurrentView)
  /\ \E granted \in BOOLEAN :
       IF granted
       THEN showCamera' = TRUE /\ UNCHANGED alerts
       ELSE /\ alerts' = Append(alerts, ErrorAlert("Camera access is required"))
            /\ UNCHANGED showCamera
  /\ UNCHANGED <<formData, errors, captures>>
  /\ CaptureUnchanged

\* The buttons of the camera can be pressed.
CanPressCamera == OnForm /\ showCamera /\ alerts = <<>> /\ ~PickerOpen

\* The Close button of the camera.
closeCamera ==
  /\ CanPressCamera
  /\ showCamera' = FALSE
  /\ UNCHANGED <<formData, errors, captures, alerts>>
  /\ CaptureUnchanged

\* The capture button: cameraRef.current.takePictureAsync is awaited.
takePicture ==
  /\ CanPressCamera
  /\ Len(captures) < MaxCaptures
  /\ Len(formData.images) < MaxImages
  /\ captures' = Append(captures, Capture("takePicture", formData.images))
  /\ UNCHANGED <<formData, errors, showCamera, alerts>>
  /\ CaptureUnchanged

\* [...formData.images, photo.uri], with the images that the callback holds
appendImages(images, uris) == images \o uris

\* The camera answers, and takePicture goes on after its await.
takePictureDone(k) ==
  /\ k \in 1..Len(captures)
  /\ captures[k].kind = "takePicture"
  /\ \/ /\ alerts' = Append(alerts, ErrorAlert("Could not take picture"))
        /\ UNCHANGED <<formData, errors, showCamera>>
     \/ \E uri \in URIs :
          /\ updateImages(k, appendImages(captures[k].images, <<uri>>))
          /\ showCamera' = (IF captures[k].live THEN FALSE ELSE showCamera)
          /\ UNCHANGED alerts
  /\ captures' = Remove(captures, k)
  /\ CaptureUnchanged

\* The button of the photo library: the permission and then the library are
\* awaited.
pickImage ==
  /\ OnForm
  /\ CanPress(CurrentView)
  /\ Len(captures) < MaxCaptures
  /\ captures' = Append(captures, Capture("pickImage", formData.images))
  /\ UNCHANGED <<formData, errors, showCamera, alerts>>
  /\ CaptureUnchanged

\* The library answers (permission denied, an error, the selection
\* cancelled, or assets), and pickImage goes on after its await.
pickImageDone(k) ==
  /\ k \in 1..Len(captures)
  /\ captures[k].kind = "pickImage"
  /\ \/ /\ \E text \in {"Photo library access is required", "Could not pick image"} :
             alerts' = Append(alerts, ErrorAlert(text))
        /\ UNCHANGED <<formData, errors>>
     \/ UNCHANGED <<formData, errors, alerts>>
     \* The library returns one or two assets while the draft has room.
     \/ \E uris \in LET n == MaxImages - Len(captures[k].images)
                    IN {<<u>> : u \in {x \in URIs : n >= 1}}
                         \cup {<<u, v>> : u \in {x \in URIs : n >= 2}, v \in URIs} :
          /\ updateImages(k, appendImages(captures[k].images, uris))
          /\ UNCHANGED alerts
  /\ captures' = Remove(captures, k)
  /\ UNCHANGED showCamera
  /\ CaptureUnchanged

\* formData.images.filter((_, i) => i !== index), index counted from 1
removeAt(images, index) ==
  SubSeq(images, 1, index - 1) \o SubSeq(images, index + 1, Len(images))

\* The remove button of an image of the form.
removeImage ==
  /\ OnForm
  /\ CanPress(CurrentView)
  /\ \E index \in 1..Len(formData.images) :
       formData' = updateFieldData(formData, "images", removeAt(formData.images, index))
  /\ errors' = updateFieldErrors(errors, "images")
  /\ UNCHANGED <<showCamera, captures, alerts>>
  /\ CaptureUnchanged

ImageSteps ==
  \/ openCamera
  \/ closeCamera
  \/ takePicture
  \/ \E k \in 1..MaxCaptures : takePictureDone(k)
  \/ pickImage
  \/ \E k \in 1..MaxCaptures : pickImageDone(k)
  \/ removeImage

(***************************************************************************)
(* The program.                                                            *)
(***************************************************************************)
\* Every task but the loadCars of the start-up was started by a press.
Slots == 1..(MaxOps + 1)

AuthSteps ==
  \/ loadUser
  \/ switchAuth
  \/ handleSignIn
  \/ \E i \in Slots : dbLogin(i)
  \/ \E i \in Slots : signInChecked(i)
  \/ \E i \in Slots : storageSetItem(i)
  \/ \E i \in Slots : signInStored(i)

SignUpSteps ==
  \/ handleSignUp
  \/ signUpElsewhere
  \/ \E i \in Slots : dbCheckEmail(i)
  \/ \E i \in Slots : signUpChecked(i)
  \/ \E i \in Slots : signUpCheckedElsewhere(i)
  \/ \E i \in Slots : dbInsertUser(i)
  \/ \E i \in Slots : signUpInserted(i)
  \/ \E i \in Slots : signUpInsertedElsewhere(i)

SignOutSteps ==
  \/ handleSignOut
  \/ \E i \in Slots : storageRemoveItem(i)
  \/ \E i \in Slots : signOutDone(i)

LoadSteps ==
  \/ \E i \in Slots : dbSelect(i)
  \/ \E i \in Slots : loadCarsDone(i)

ListSteps ==
  \/ onAddCar
  \/ handleCarPress
  \/ dismissAlert

QuerySteps ==
  \/ \E q \in {<<>>, <<"v">>} : setSearchQuery(q)
  \/ setSortBy

AddSteps ==
  \/ typeDraft
  \/ AddCarScreen_onBack
  \/ AddCarScreen_handleSave
  \/ \E i \in Slots : dbInsert(i)
  \/ \E i \in Slots : addCarInserted(i)
  \/ \E i \in Slots : addCarLoaded(i)

DetailsSteps ==
  \/ CarDetailsScreen_onBack
  \/ onEdit
  \/ onDelete
  \/ confirmCancel
  \/ confirmDelete
  \/ \E i \in Slots : dbDelete(i)
  \/ \E i \in Slots : deleteCarDeleted(i)
  \/ \E i \in Slots : deleteCarLoaded(i)

EditSteps ==
  \/ EditCarScreen_onBack
  \/ EditCarScreen_handleSave
  \/ \E i \in Slots : dbUpdate(i)
  \/ \E i \in Slots : updateCarUpdated(i)
  \/ \E i \in Slots : updateCarLoaded(i)

\* The whole program.
Next ==
  \/ AuthSteps
  \/ SignUpSteps
  \/ SignOutSteps
  \/ restart
  \/ ImageSteps
  \/ LoadSteps
  \/ ListSteps
  \/ QuerySteps
  \/ AddSteps
  \/ DetailsSteps
  \/ EditSteps

Spec == Init /\ [][Next]_vars

\* The listing lifecycle of one signed-in session: the program without the
\* search box, the sort buttons and the sign-out button.
NextListing ==
  \/ AuthSteps
  \/ LoadSteps
  \/ ListSteps
  \/ AddSteps
  \/ DetailsSteps
  \/ EditSteps

SpecListing == Init /\ [][NextListing]_vars

\* The listing lifecycle with the sign-out button: the program without the
\* search box and the sort buttons.
NextSession ==
  \/ NextListing
  \/ SignOutSteps

SpecSession == Init /\ [][NextSession]_vars

(***************************************************************************)
(* The images of a draft: a signed-in session that has typed a draft into  *)
(* the Add form, or into the Edit form of the listing it selected, and has *)
(* taken or picked up to MaxImages images; it removes images and saves.    *)
(***************************************************************************)

\* The images that CarDetailsScreen shows, first to last (car.images.map).
detailImages(car) == PropOr(car, "images", <<>>)

\* The image that CarCard shows in the list (car.images[0]), if it shows one.
cardImage(car) ==
  IF PropOr(car, "images", <<>>) # <<>> THEN <<car.images[1]>> ELSE <<>>

InitImages ==
  /\ loading = FALSE
  /\ user = <<Account>>
  /\ storedUser = <<Account>>
  /\ users = <<Account>>
  /\ table = <<insertedRow(DraftB, Account.id, 1, 1)>>
  /\ nextId = 2
  /\ clock = 1
  /\ cars = selectAll(table)
  /\ searchQuery = <<>>
  /\ sortBy = "date"
  /\ listed \in filteredAndSortedCars(cars, searchQuery, sortBy)
  /\ screen \in {"add", "edit"}
  /\ selectedCar = IF screen = "edit" THEN <<cars[1]>> ELSE <<>>
  /\ thisYear = ThisYear
  /\ \E images \in UNION {[1..m -> URIs] : m \in 0..MaxImages} :
       formData = updateFieldData(DraftA, "images", images)
  /\ errors = updateFieldErrors(typedErrors(NoErrors), "images")
  /\ showCamera = FALSE
  /\ captures = <<>>
  /\ isLogin = TRUE
  /\ alerts = <<>>
  /\ tasks = <<>>
  /\ ops = 0

NextImages ==
  \/ removeImage
  \/ AddCarScreen_handleSave
  \/ \E i \in Slots : dbInsert(i)
  \/ \E i \in Slots : addCarInserted(i)
  \/ \E i \in Slots : addCarLoaded(i)
  \/ EditCarScreen_handleSave
  \/ \E i \in Slots : dbUpdate(i)
  \/ \E i \in Slots : updateCarUpdated(i)
  \/ \E i \in Slots : updateCarLoaded(i)
  \/ \E i \in Slots : dbSelect(i)
  \/ dismissAlert

SpecImages == InitImages /\ [][NextImages]_vars

\* The camera and the photo library alone: a signed-in session on the Add
\* form, or on the Edit form of the listing it selected, that takes pictures,
\* picks images and removes them.
InitCapture ==
  /\ loading = FALSE
  /\ user = <<Account>>
  /\ storedUser = <<Account>>
  /\ users = <<Account>>
  /\ table = <<insertedRow(DraftB, Account.id, 1, 1)>>
  /\ nextId = 2
  /\ clock = 1
  /\ cars = selectAll(table)
  /\ searchQuery = <<>>
  /\ sortBy = "date"
  /\ listed \in filteredAndSortedCars(cars, searchQuery, sortBy)
  /\ screen \in {"add", "edit"}
  /\ selectedCar = IF screen = "edit" THEN <<cars[1]>> ELSE <<>>
  /\ thisYear = ThisYear
  /\ formData = IF screen = "edit" THEN editFormData(cars[1]) ELSE EmptyDraft
  /\ errors = NoErrors
  /\ showCamera = FALSE
  /\ captures = <<>>
  /\ isLogin = TRUE
  /\ alerts = <<>>
  /\ tasks = <<>>
  /\ ops = 0

NextCapture ==
  \/ ImageSteps
  \/ dismissAlert

SpecCapture == InitCapture /\ [][NextCapture]_vars

\* C21: the images of a draft go through a save and a load in their order.
\* The step in which the table takes the insert or the update of a draft
\* leaves the row written with the draft's images, first to last; the step in
\* which a select is answered returns every row of the table with the images
\* the table holds for it; and the step in which loadCars or a mutation takes
\* the answer of its select leaves, for every row of the answer, a car in
\* cars of which the details screen shows exactly the row's images, first to
\* last, and the card of the list the first of them.
C21_ImagesKeepTheirOrder ==
  [][\A i \in 1..Len(tasks) :
       LET t == tasks[i]
           answered == /\ t.resp = <<>>
                       /\ Len(tasks') = Len(tasks)
                       /\ tasks'[i].resp # <<>>
                       /\ ~tasks'[i].resp[1].error
           taken == /\ t.pc = "select"
                    /\ t.resp # <<>>
                    /\ ~t.resp[1].error
                    /\ tasks' = Remove(tasks, i)
           first(images) == IF images = <<>> THEN <<>> ELSE <<images[1]>>
       IN /\ (t.pc = "insert" /\ answered) =>
               LET got == RowsWithId(table', tasks'[i].resp[1].data[1].id)
               IN Len(got) = 1 /\ got[1].images = t.carData.images
          /\ (t.pc = "update" /\ answered) =>
               \A k \in 1..Len(table') :
                  table'[k].id = t.carId => table'[k].images = t.carData.images
          /\ (t.pc = "select" /\ answered) =>
               /\ Len(tasks'[i].resp[1].data) = Len(table)
               /\ \A k \in 1..Len(table) :
                     LET got == RowsWithId(tasks'[i].resp[1].data, table[k].id)
                     IN Len(got) = 1 /\ got[1].images = table[k].images
          /\ taken =>
               /\ Len(cars') = Len(t.resp[1].data)
               /\ \A k \in 1..Len(cars') :
                     /\ cars'[k].id = t.resp[1].data[k].id
                     /\ detailImages(cars'[k]) = t.resp[1].data[k].images
                     /\ cardImage(cars'[k]) = first(t.resp[1].data[k].images)]_vars

\* A draft with three images, not all the same, was inserted and fetched:
\* cars holds the new car with the three images in the draft's order.
C21_ThreeImagesFetched ==
  /\ tasks = <<>>
  /\ CurrentView = "home"
  /\ \E k \in 1..Len(cars) :
        /\ cars[k].id = 2
        /\ Len(cars[k].images) = 3
        /\ cars[k].images[1] # cars[k].images[3]

\* C22: a step in which a takePicture or pickImage call of the mounted form
\* ends leaves the images of the draft as they were and, behind them, what
\* the camera or the library supplied: no image that the draft held is gone
\* or has moved, also when other captures or removals came between the press
\* and the answer.  A step that removes an image leaves the images as they
\* were but for the one at the index pressed.
C22_CapturesAppendAtTheEnd ==
  [][/\ \A k \in 1..Len(captures) :
          (captures[k].live /\ captures' = Remove(captures, k)) =>
             /\ Len(formData'.images) >= Len(formData.images)
             /\ SubSeq(formData'.images, 1, Len(formData.images)) = formData.images
     /\ (captures' = captures /\ Len(formData'.images) < Len(formData.images)) =>
          \E index \in 1..Len(formData.images) :
             formData'.images = removeAt(formData.images, index)]_vars

(***************************************************************************)
(* The accounts: the program on AuthScreen, with no user stored, that      *)
(* signs up, while another copy of the program signs up too.               *)
(***************************************************************************)
InitSignUp ==
  /\ loading = FALSE
  /\ user = <<>>
  /\ screen = "home"
  /\ cars = <<>>
  /\ selectedCar = <<>>
  /\ searchQuery = <<>>
  /\ sortBy = "date"
  /\ listed = <<>>
  /\ formData = EmptyDraft
  /\ errors = NoErrors
  /\ showCamera = FALSE
  /\ captures = <<>>
  /\ isLogin = TRUE
  /\ alerts = <<>>
  /\ tasks = <<>>
  /\ users = <<Account>>
  /\ table \in StartTables
  /\ storedUser = <<>>
  /\ nextId = Len(table) + 1
  /\ clock = Len(table)
  /\ thisYear = ThisYear
  /\ ops = 0

NextSignUp ==
  \/ switchAuth
  \/ SignUpSteps
  \/ dismissAlert

SpecSignUp == InitSignUp /\ [][NextSignUp]_vars

\* C29: no two rows of the users table have the same email: a sign-up for
\* an email that the table holds inserts no row, also when two sign-ups for
\* the email run at the same time.
C29_EmailsAreUnique ==
  \A i, j \in 1..Len(users) : i < j => users[i].email # users[j].email

(***************************************************************************)
(* The session: the program that starts, signs in, loads the cars, signs   *)
(* out, and is closed and started again.                                   *)
(***************************************************************************)
NextAccount ==
  \/ AuthSteps
  \/ SignOutSteps
  \/ LoadSteps
  \/ dismissAlert
  \/ restart

SpecAccount == Init /\ [][NextAccount]_vars

\* C30: the user in memory follows the record in the storage.  The step of
\* a sign-in that sets the user finds the record of that user stored; the
\* step that ends the loading after a start sets the user to the record
\* that the storage holds, and shows AuthScreen exactly when it holds none;
\* the step of a sign-out that sets the user to null finds no record stored;
\* and the step that takes the failure of a setItem or a removeItem leaves
\* the user as it is.
C30_UserFollowsStorage ==
  [][/\ (~loading /\ user = <<>> /\ user' # <<>>) => storedUser' = user'
     /\ (loading /\ ~loading') =>
          /\ user' = storedUser
          /\ (View(loading', user', screen', selectedCar') = "auth")
               <=> (storedUser = <<>>)
     /\ (~loading /\ ~loading' /\ user # <<>> /\ user' = <<>>) => storedUser' = <<>>
     /\ \A i \in 1..Len(tasks) :
          (/\ tasks[i].pc \in {"setItem", "removeItem"}
           /\ tasks[i].resp # <<>>
           /\ tasks[i].resp[1].error
           /\ ~loading'
           /\ tasks' = Remove(tasks, i)) => user' = user]_vars

(***************************************************************************)
(* The flows of the listing lifecycle, step by step.                       *)
(***************************************************************************)
\* C23: an addCar, updateCar or deleteCar sends its select in the step in
\* which it takes the answer of its write, and only when that answer is no
\* error; this step leaves the screen as it is.  The call ends either in the
\* step that takes an error of the write, which sends no select and leaves
\* the screen as it is, or in the step that takes the answer of its select,
\* which sets the screen to the list.
C23_ReloadThenList ==
  [][\A i \in 1..Len(tasks) :
       tasks[i].kind \in {"addCar", "updateCar", "deleteCar"} =>
         LET t == tasks[i]
             selects(ts) == {j \in 1..Len(ts) : ts[j].pc = "select"}
             goesOn == /\ Len(tasks') = Len(tasks)
                       /\ tasks'[i].kind = t.kind
                       /\ tasks'[i].pc # t.pc
             ends == tasks' = Remove(tasks, i)
         IN /\ goesOn =>
                 /\ t.pc \in {"insert", "update", "delete"}
                 /\ t.resp # <<>> /\ ~t.resp[1].error
                 /\ tasks'[i].pc = "select" /\ tasks'[i].resp = <<>>
                 /\ screen' = screen
            /\ (ends /\ t.pc # "select") =>
                 /\ t.resp # <<>> /\ t.resp[1].error
                 /\ Cardinality(selects(tasks')) = Cardinality(selects(tasks))
                 /\ screen' = screen
            /\ (ends /\ t.pc = "select") =>
                 /\ t.resp # <<>>
                 /\ screen' = "home"]_vars

\* The update of a draft has succeeded and its select is not yet answered:
\* the Edit form is still shown.
C23_EditFormAwaitsReload ==
  /\ CurrentView = "edit"
  /\ \E i \in 1..Len(tasks) :
        /\ tasks[i].kind = "updateCar"
        /\ tasks[i].pc = "select"
        /\ tasks[i].resp = <<>>
        /\ ~tasks[i].wrote[1].error

\* C25: the step that opens the Edit form of a car leaves in the form a
\* draft that is one of the drafts that were saved (every car of the table
\* was saved from DraftA or DraftB), with every field as it was entered, so
\* that handleSave passes it on unchanged.
C25_EditPreloadsWhatWasSaved ==
  [][(CurrentView # "edit" /\ View(loading', user', screen', selectedCar') = "edit") =>
       /\ formData' \in {DraftA, DraftB}
       /\ saveAllowed(formData', thisYear)]_vars

\* C26: when cars holds what the table holds (the answer of the select that
\* was sent last has been taken), the step in which loadCars or a mutation
\* takes the answer of an earlier select leaves cars as the table holds
\* them: an answer that arrives late does not replace a later one, and with
\* no call left in progress cars is what the table holds.
C26_LateAnswerDoesNotOverwrite ==
  [][\A i \in 1..Len(tasks) :
       (/\ tasks[i].pc = "select"
        /\ tasks[i].resp # <<>>
        /\ ~tasks[i].resp[1].error
        /\ tasks' = Remove(tasks, i)
        /\ cars = selectAll(table))
          => cars' = selectAll(table')]_vars

\* C27: while no user is signed in, cars is empty: before the first sign-in,
\* and after a sign-out also when a loadCars or a mutation that was started
\* before the sign-out gets its answer after it.
C27_NoCarsWithoutUser ==
  user = <<>> => cars = <<>>

\* C28: whenever the screen is 'details' or 'edit' a car is selected, so that
\* App never falls through to the list for want of a selected car, whatever
\* the order of the presses and of the answers to the inserts, updates and
\* deletes in progress.
C28_DetailsAndEditHaveACar ==
  screen \in {"details", "edit"} => selectedCar # <<>>

\* The Edit form of a car is shown while a deleteCar of that car has the
\* answer of its select and is about to end.
C28_DeleteEndsUnderEditForm ==
  /\ screen = "edit"
  /\ CurrentView = "edit"
  /\ \E i \in 1..Len(tasks) :
        /\ Answered(i, "deleteCar", "select")
        /\ tasks[i].carId = selectedCar[1].id

\* C13: a deleteCar is sent only by the step that takes the confirmation
\* dialog of that car from the top of the dialogs; the step that brings the
\* dialog up (Delete on the details screen) sends nothing, and the step that
\* takes the dialog away without sending a delete (Cancel) leaves the table,
\* cars, the screen, the selected car and the calls in progress as they are.
C13_DeleteWaitsForConfirm ==
  [][LET deletes(ts) == {i \in 1..Len(ts) : ts[i].kind = "deleteCar"}
         sends == Cardinality(deletes(tasks')) > Cardinality(deletes(tasks))
         confirmUp == alerts # <<>> /\ alerts[Len(alerts)].kind = "confirm"
         closes == confirmUp /\ alerts' = SubSeq(alerts, 1, Len(alerts) - 1)
         opens == /\ Len(alerts') = Len(alerts) + 1
                  /\ alerts'[Len(alerts')].kind = "confirm"
     IN /\ sends => /\ closes
                     /\ tasks'[Len(tasks')].kind = "deleteCar"
                     /\ tasks'[Len(tasks')].carId = alerts[Len(alerts)].carId
        /\ opens => UNCHANGED <<tasks, table, cars, screen, selectedCar>>
        /\ (closes /\ ~sends)
             => UNCHANGED <<tasks, table, cars, screen, selectedCar>>]_vars

C16_FailedSaveKeepsFormAndDraft ==
  [][\A i \in 1..Len(tasks) :
       (/\ tasks[i].kind \in {"addCar", "updateCar"}
        /\ tasks[i].pc \in {"insert", "update"}
        /\ tasks[i].resp # <<>>
        /\ tasks[i].resp[1].error
        /\ tasks' = Remove(tasks, i)) =>
          /\ alerts' = Append(alerts,
                ErrorAlert(IF tasks[i].kind = "addCar"
                           THEN "Could not save car" ELSE "Could not update car"))
          /\ UNCHANGED <<screen, selectedCar, user, loading, formData, errors>>]_vars

\* The insert of a valid draft has failed: the error dialog is up over the Add
\* form, which still holds the draft that was saved.
C16_FailedInsertOnAddForm ==
  /\ alerts # <<>>
  /\ alerts[Len(alerts)] = ErrorAlert("Could not save car")
  /\ tasks = <<>>
  /\ CurrentView = "add"
  /\ formData = DraftA
  /\ DOMAIN errors = {}

\* C17: of the inserts, updates and deletes that were sent and are not yet
\* answered, no two belong to the same flow (two addCar, two updateCar, two
\* deleteCar), and no two are an update or delete of the same id.
C17_OneMutationInFlight ==
  LET inFlight(i) == /\ tasks[i].pc \in {"insert", "update", "delete"}
                     /\ tasks[i].resp = <<>>
  IN \A i, j \in 1..Len(tasks) :
        (i < j /\ inFlight(i) /\ inFlight(j)) =>
           /\ tasks[i].kind # tasks[j].kind
           /\ tasks[i].carId # tasks[j].carId

\* C18: a step that sends a select, insert, update or delete on the cars
\* table (a call in progress that newly awaits one of them) ends in a state
\* in which a user is signed in; this covers the select that a mutation
\* started before a sign-out sends after its write.
C18_NoRequestWithoutUser ==
  [][\A i \in 1..Len(tasks') :
       (/\ tasks'[i].pc \in {"select", "insert", "update", "delete"}
        /\ tasks'[i].resp = <<>>
        /\ \A j \in 1..Len(tasks) : tasks[j] # tasks'[i])
          => user' # <<>>]_vars

\* C19: when an addCar, updateCar or deleteCar ends while the view is no
\* longer the one that started it (the Add form, the Edit form or the details
\* screen of the car), the step leaves the screen and the selected car as
\* they are.
C19_CompletionLeavesNewScreen ==
  [][\A i \in 1..Len(tasks) :
       (/\ tasks[i].kind \in {"addCar", "updateCar", "deleteCar"}
        /\ tasks[i].resp # <<>>
        /\ tasks' = Remove(tasks, i)
        /\ \/ tasks[i].kind = "addCar" /\ CurrentView # "add"
           \/ tasks[i].kind = "updateCar" /\ CurrentView # "edit"
           \/ tasks[i].kind = "deleteCar" /\ CurrentView # "details"
           \/ tasks[i].kind # "addCar" /\ selectedCar # <<>>
                /\ selectedCar[1].id # tasks[i].carId)
          => UNCHANGED <<screen, selectedCar>>]_vars

\* C20: every row of the table has a time of creation that is not after its
\* time of last update.
C20_CreatedNotAfterUpdated ==
  \A k \in 1..Len(table) : table[k].created_at <= table[k].updated_at

\* Delete was pressed on the details screen of a car that the table holds:
\* the confirmation dialog is up and no deleteCar is in progress.
C13_ConfirmationIsUp ==
  /\ alerts # <<>>
  /\ alerts[Len(alerts)].kind = "confirm"
  /\ \A i \in 1..Len(tasks) : tasks[i].kind # "deleteCar"
  /\ screen = "details"
  /\ selectedCar # <<>>
  /\ alerts[Len(alerts)].carId \in RowIds(table)

(***************************************************************************)
(* The forms alone: a signed-in session that has typed a draft into the    *)
(* Add form, or into the Edit form of the listing it selected, and presses *)
(* Save.  The drafts cover every field empty, blank and filled, the years  *)
(* around both limits, negative and unparsable numbers, and emails with    *)
(* and without an @.                                                       *)
(***************************************************************************)
\* The decimal digits that the keyboard sends for a number.
RECURSIVE Decimal(_)
Decimal(n) ==
  LET d == CHOOSE c \in Digits : DigitVal(c) = n % 10
  IN IF n < 10 THEN <<d>> ELSE Append(Decimal(n \div 10), d)

FormInputs(y) ==
  [brand : {<<>>, <<" ">>, <<"V">>},
   model : {<<>>, <<"a">>},
   year : {<<>>, <<" ">>, <<"a">>, Decimal(MinYear - 1), Decimal(MinYear),
           Decimal(y), Decimal(y + 1), Decimal(y + 2)},
   km : {<<>>, <<"-", "1">>, <<"0">>, <<"a">>},
   price : {<<" ">>, <<"-", "5">>, <<"7">>, <<"a">>},
   description : {<<>>},
   images : {<<>>},
   ownerName : {<<>>, <<"N">>},
   ownerPhone : {<<" ">>, <<"1">>},
   ownerEmail : {<<>>, <<" ">>, <<"a">>, <<"a", "@">>}]

InitValidate ==
  /\ loading = FALSE
  /\ user = <<Account>>
  /\ storedUser = <<Account>>
  /\ table = <<insertedRow(DraftB, Account.id, 1, 1)>>
  /\ nextId = 2
  /\ clock = 1
  /\ cars = selectAll(table)
  /\ searchQuery = <<>>
  /\ sortBy = "date"
  /\ listed \in filteredAndSortedCars(cars, searchQuery, sortBy)
  /\ screen \in {"add", "edit"}
  /\ selectedCar = IF screen = "edit" THEN <<cars[1]>> ELSE <<>>
  /\ thisYear \in {ThisYear, ThisYear + 1}
  /\ formData \in FormInputs(thisYear)
  /\ errors = NoErrors
  /\ showCamera = FALSE
  /\ captures = <<>>
  /\ isLogin = TRUE
  /\ users = <<Account>>
  /\ alerts = <<>>
  /\ tasks = <<>>
  /\ ops = 0

NextValidate ==
  \/ AddCarScreen_handleSave
  \/ EditCarScreen_handleSave
  \/ dismissAlert

SpecValidate == InitValidate /\ [][NextValidate]_vars

(***************************************************************************)
(* The list view alone: a signed-in session whose list of cars was loaded  *)
(* from a table of up to MaxCars rows, each inserted from a draft that     *)
(* passes validateForm, and that types into the search box and presses the *)
(* sort buttons.                                                           *)
(***************************************************************************)
QueryDrafts ==
  {d \in {DraftA, DraftB,
          [DraftA EXCEPT !.model = <<"x">>, !.km = <<"9">>, !.price = <<"9">>],
          [DraftB EXCEPT !.model = <<"a">>, !.km = <<"5">>, !.price = <<"7">>]} :
     saveAllowed(d, ThisYear)}

InitQuery ==
  /\ loading = FALSE
  /\ user = <<Account>>
  /\ storedUser = <<Account>>
  /\ \E n \in 0..MaxCars :
       \E ds \in [1..n -> QueryDrafts] :
         table = [k \in 1..n |-> insertedRow(ds[k], Account.id, k, k)]
  /\ nextId = Len(table) + 1
  /\ clock = Len(table)
  /\ cars = selectAll(table)
  /\ searchQuery = <<>>
  /\ sortBy = "date"
  /\ listed \in filteredAndSortedCars(cars, searchQuery, sortBy)
  /\ screen = "home"
  /\ selectedCar = <<>>
  /\ thisYear = ThisYear
  /\ formData = EmptyDraft
  /\ errors = NoErrors
  /\ showCamera = FALSE
  /\ captures = <<>>
  /\ isLogin = TRUE
  /\ users = <<Account>>
  /\ alerts = <<>>
  /\ tasks = <<>>
  /\ ops = 0

NextQuery ==
  \/ \E q \in {<<>>, <<" ">>, <<"v">>, <<"V">>, <<"v", " ">>, <<"2", "0">>} :
       setSearchQuery(q)
  \/ setSortBy

SpecQuery == InitQuery /\ [][NextQuery]_vars

(***************************************************************************)
(* handleSave and validateForm, over the drafts of SpecValidate.           *)
(***************************************************************************)
\* C1: a draft that validateForm finds a defect in never reaches addCar or
\* updateCar from AddCarScreen or EditCarScreen: every addCar and updateCar
\* call in progress carries a draft for which validateForm, evaluated in the
\* year of the save, returns no error.
C1_OnlyValidDraftsAreSaved ==
  \A i \in 1..Len(tasks) :
     tasks[i].kind \in {"addCar", "updateCar"}
       => DOMAIN validateForm(tasks[i].carData, thisYear) = {}

\* Save was pressed on the Edit form: an updateCar is in progress that
\* carries the draft of the form, and errors is empty.
C1_EditSaveInProgress ==
  /\ \E i \in 1..Len(tasks) :
        tasks[i].kind = "updateCar" /\ tasks[i].carData = formData
  /\ formData.ownerEmail = <<"a", "@">>
  /\ DOMAIN errors = {}

\* C5: for the draft in the form, the mapping of validateForm holds the
\* entry "<Field> is required" of a required field (brand, model, year, km,
\* price, ownerName, ownerPhone) exactly when the trimmed value of the field
\* is empty; and when every required field is either blank or well-formed
\* and the email is well-formed, the keys of the mapping are exactly the
\* blank required fields.
C5_RequiredIffBlank ==
  LET e == validateForm(formData, thisYear)
      required == <<"brand", "model", "year", "km", "price",
                    "ownerName", "ownerPhone">>
      message == <<"Brand is required", "Model is required", "Year is required",
                   "Mileage is required", "Price is required",
                   "Name is required", "Phone is required">>
      blank(f) == Trim(formData[f]) = <<>>
      y == ParseInt(formData.year)
      wellFormed(f) ==
        CASE f = "year" -> y.nan \/ (y.val >= 1900 /\ y.val <= thisYear + 1)
          [] f \in {"km", "price"} ->
               ParseInt(formData[f]).nan \/ ParseInt(formData[f]).val >= 0
          [] OTHER -> TRUE
      onlyMissing ==
        /\ \A k \in 1..7 : blank(required[k]) \/ wellFormed(required[k])
        /\ (formData.ownerEmail = <<>>
              \/ \E i \in 1..Len(formData.ownerEmail) : formData.ownerEmail[i] = "@")
  IN /\ \A k \in 1..7 :
          (required[k] \in DOMAIN e /\ e[required[k]] = message[k])
            <=> blank(required[k])
     /\ onlyMissing
          => DOMAIN e = {required[k] : k \in {j \in 1..7 : blank(required[j])}}

\* Save was pressed on a draft whose brand is one space and whose other
\* fields are in order: errors holds "Brand is required" and nothing else.
C5_BlankBrandRejected ==
  /\ formData.brand = <<" ">>
  /\ errors = validateForm(formData, thisYear)
  /\ DOMAIN errors = {"brand"}
  /\ errors.brand = "Brand is required"
  /\ alerts # <<>>

\* C6: when the year of the draft parses to an integer, the mapping of
\* validateForm holds "Invalid year" exactly when that integer is below 1900
\* or above the current year + 1; the years 1899 and current year + 2 get the
\* message, the years 1900 and current year + 1 do not.
C6_InvalidYearIffOutOfRange ==
  LET e == validateForm(formData, thisYear)
      y == ParseInt(formData.year)
      invalid == "year" \in DOMAIN e /\ e.year = "Invalid year"
  IN /\ ~y.nan => (invalid <=> (y.val < 1900 \/ y.val > thisYear + 1))
     /\ formData.year \in {Decimal(1899), Decimal(thisYear + 2)} => invalid
     /\ formData.year \in {Decimal(1900), Decimal(thisYear + 1)} => ~invalid

\* Save was pressed on a draft of the year after next, and on no other
\* ground errors holds "Invalid year".
C6_YearAfterNextRejected ==
  /\ formData.year = Decimal(thisYear + 2)
  /\ errors = validateForm(formData, thisYear)
  /\ DOMAIN errors = {"year"}
  /\ errors.year = "Invalid year"
  /\ alerts # <<>>

\* C7: the mapping of validateForm holds "Invalid email address" exactly when
\* ownerEmail is non-empty and holds no "@"; an empty ownerEmail gives no
\* entry for the email, so a draft that is otherwise in order is saved.
C7_InvalidEmailIffNoAt ==
  LET e == validateForm(formData, thisYear)
      hasAt == \E i \in 1..Len(formData.ownerEmail) : formData.ownerEmail[i] = "@"
  IN /\ ("ownerEmail" \in DOMAIN e /\ e.ownerEmail = "Invalid email address")
          <=> (formData.ownerEmail # <<>> /\ ~hasAt)
     /\ formData.ownerEmail = <<>> => "ownerEmail" \notin DOMAIN e
     /\ (formData.ownerEmail = <<>> /\ DOMAIN e = {})
          => saveAllowed(formData, thisYear)

\* Save was pressed on a draft whose only defect is an email without "@".
C7_EmailWithoutAtRejected ==
  /\ formData.ownerEmail = <<"a">>
  /\ errors = validateForm(formData, thisYear)
  /\ DOMAIN errors = {"ownerEmail"}
  /\ errors.ownerEmail = "Invalid email address"
  /\ alerts # <<>>

\* C8: a non-empty km that parses to a negative integer gets "Invalid
\* mileage" and a non-empty price that parses to a negative integer gets
\* "Invalid price"; a km or price that parses to an integer >= 0 gets neither.
C8_NegativeNumbersRejected ==
  LET e == validateForm(formData, thisYear)
      km == ParseInt(formData.km)
      price == ParseInt(formData.price)
      kmInvalid == "km" \in DOMAIN e /\ e.km = "Invalid mileage"
      priceInvalid == "price" \in DOMAIN e /\ e.price = "Invalid price"
  IN /\ (formData.km # <<>> /\ ~km.nan /\ km.val < 0) => kmInvalid
     /\ (formData.price # <<>> /\ ~price.nan /\ price.val < 0) => priceInvalid
     /\ (~km.nan /\ km.val >= 0) => ~kmInvalid
     /\ (~price.nan /\ price.val >= 0) => ~priceInvalid
     /\ formData.km = <<"-", "1">> => kmInvalid
     /\ formData.price = <<"-", "5">> => priceInvalid
     /\ formData.km = <<"0">> => ~kmInvalid

\* Save was pressed on a draft with km -1 and price -5: errors holds both
\* messages.
C8_NegativeKmAndPriceRejected ==
  /\ formData.km = <<"-", "1">>
  /\ formData.price = <<"-", "5">>
  /\ errors = validateForm(formData, thisYear)
  /\ DOMAIN errors = {"km", "price"}
  /\ errors.km = "Invalid mileage"
  /\ errors.price = "Invalid price"
  /\ alerts # <<>>

\* C24: a year, km or price that is not empty and does not parse as an
\* integer gets no "Invalid ..." message; and a draft with such a field that
\* is valid otherwise (no required field is blank, the email is empty or
\* holds an "@", and the numbers that do parse are in their ranges) gets the
\* empty mapping from validateForm, so that handleSave passes it on.
C24_UnparsableNumbersPass ==
  LET e == validateForm(formData, thisYear)
      numbers == {"year", "km", "price"}
      unparsable(f) == formData[f] # <<>> /\ ParseInt(formData[f]).nan
      inRange(f) ==
        LET v == ParseInt(formData[f]).val
        IN IF f = "year" THEN v >= 1900 /\ v <= thisYear + 1 ELSE v >= 0
      otherwise ==
        /\ \A f \in {"brand", "model", "year", "km", "price",
                      "ownerName", "ownerPhone"} : Trim(formData[f]) # <<>>
        /\ (formData.ownerEmail = <<>>
              \/ \E i \in 1..Len(formData.ownerEmail) : formData.ownerEmail[i] = "@")
        /\ \A f \in numbers : ~unparsable(f) => inRange(f)
  IN /\ \A f \in numbers :
          unparsable(f) =>
            ~(f \in DOMAIN e
                /\ e[f] \in {"Invalid year", "Invalid mileage", "Invalid price"})
     /\ ((\E f \in numbers : unparsable(f)) /\ otherwise) =>
          /\ DOMAIN e = {}
          /\ saveAllowed(formData, thisYear)

\* Save was pressed on the Add form on a draft whose year, km and price are
\* all "a": an addCar is in progress that carries the draft.
C24_UnparsableDraftInProgress ==
  /\ formData.year = <<"a">>
  /\ formData.km = <<"a">>
  /\ formData.price = <<"a">>
  /\ DOMAIN errors = {}
  /\ \E i \in 1..Len(tasks) :
        tasks[i].kind = "addCar" /\ tasks[i].carData = formData

(***************************************************************************)
(* filteredAndSortedCars, over the lists of SpecQuery.                     *)
(***************************************************************************)
\* C9: the list shown holds a car of cars, exactly once, exactly when the
\* trimmed, lower-cased text of the search box is a substring of the car's
\* lower-cased brand, of its lower-cased model or of its year, whatever the
\* sort; with an empty text it holds every car.
C9_ShownIffTrimmedTextMatches ==
  LET q == ToLowerCase(Trim(searchQuery))
      matches(car) ==
        \/ Includes(ToLowerCase(car.brand), q)
        \/ Includes(ToLowerCase(car.model), q)
        \/ Includes(car.year, q)
      shown(car) == {j \in 1..Len(listed) : listed[j] = car}
  IN /\ \A k \in 1..Len(cars) :
          Cardinality(shown(cars[k])) = (IF matches(cars[k]) THEN 1 ELSE 0)
     /\ \A j \in 1..Len(listed) : \E k \in 1..Len(cars) : cars[k] = listed[j]
     /\ searchQuery = <<>> => Len(listed) = Len(cars)

\* C10: sorted by price the list shown is in descending order of price, and
\* sorted by km in ascending order of km, where a price or km that is missing
\* or does not parse as an integer counts as 0.
C10_OrderedWithUnparsableAsZero ==
  LET value(car, f) ==
        IF f \in DOMAIN car /\ ~ParseInt(car[f]).nan
        THEN ParseInt(car[f]).val ELSE 0
  IN \A i, j \in 1..Len(listed) :
        i < j =>
          /\ sortBy = "price" => value(listed[i], "price") >= value(listed[j], "price")
          /\ sortBy = "km" => value(listed[i], "km") <= value(listed[j], "km")

\* C11: with the sort "date", and with any sort other than "price" and "km",
\* the list shown is in descending order of the time of creation that its
\* rows carry from the select of loadCars (the most recent first).
C11_DateSortIsNewestFirst ==
  sortBy \notin {"price", "km"} =>
    \A i, j \in 1..Len(listed) :
       i < j => listed[i].created_at > listed[j].created_at

\* Sorted by date, after a text was typed, the list shows several cars whose
\* prices are not in descending order.
C11_DateSortedAfterSearch ==
  /\ sortBy = "date"
  /\ searchQuery = <<"2", "0">>
  /\ Len(listed) >= 3
  /\ \E i, j \in 1..Len(listed) :
        i < j /\ JsLt(IntOrZero(listed[i], "price"), IntOrZero(listed[j], "price"))

\* C12: for every sort, two cars of the list shown whose sort keys are equal
\* (the same price under "price", the same km under "km", the same time of
\* creation under "date") are in the order in which cars holds them.
C12_EqualKeysKeepInputOrder ==
  LET place(car) == CHOOSE k \in 1..Len(cars) : cars[k] = car
      key(car) == CASE sortBy = "price" -> ParseInt(car.price)
                    [] sortBy = "km" -> ParseInt(car.km)
                    [] OTHER -> Num(car.created_at)
  IN \A i, j \in 1..Len(listed) :
        (i < j /\ ~key(listed[i]).nan /\ key(listed[i]) = key(listed[j]))
          => place(listed[i]) < place(listed[j])

(***************************************************************************)
(* The listing lifecycle: what is sent, and what the table and the list    *)
(* that is fetched afterwards hold.                                        *)
(***************************************************************************)
\* C2: after an insert of a valid draft has succeeded, the list that the
\* select of the same addCar returns holds exactly one listing with the id
\* that the insert assigned; each of the ten fields of the draft (brand,
\* model, year, km, price, description, ownerName, ownerPhone, ownerEmail,
\* images) is a property of that listing and equals the draft's value, and
\* its time of creation equals its time of last update.
C2_InsertedListingHasTheDraft ==
  \A i \in 1..Len(tasks) :
     (Answered(i, "addCar", "select") /\ ~tasks[i].resp[1].error) =>
        LET id == tasks[i].wrote[1].data[1].id
            got == RowsWithId(tasks[i].resp[1].data, id)
        IN /\ Len(got) = 1
           /\ \A f \in DraftFields :
                 f \in DOMAIN got[1] /\ got[1][f] = tasks[i].carData[f]
           /\ got[1].created_at = got[1].updated_at

\* C3: after an update of listing id with a valid draft has succeeded, the
\* list that the select of the same updateCar returns holds listing id with
\* every field of the draft replaced by the draft's value and a time of last
\* update strictly greater than before; its id and its time of creation are
\* as before, and every other listing is as it was when the update ran.
C3_UpdatedListingHasTheDraft ==
  \A i \in 1..Len(tasks) :
     (/\ Answered(i, "updateCar", "select")
      /\ ~tasks[i].resp[1].error
      /\ tasks[i].wrote[1].affected > 0) =>
        LET id == tasks[i].carId
            before == tasks[i].wrote[1].data
            old == RowsWithId(before, id)[1]
            after == tasks[i].resp[1].data
            got == RowsWithId(after, id)
        IN /\ Len(got) = 1
           /\ \A f \in DraftFields :
                 f \in DOMAIN got[1] /\ got[1][f] = tasks[i].carData[f]
           /\ got[1].updated_at > old.updated_at
           /\ got[1].created_at = old.created_at
           /\ \A k \in 1..Len(before) :
                 before[k].id # id
                   => \E j \in 1..Len(after) : after[j] = before[k]

\* C4: after a delete of listing id has succeeded, the list that the select
\* of the same deleteCar returns holds no listing with that id, and a delete
\* of an id that the table no longer holds (a second delete of the same id)
\* is answered with an error.
C4_DeletedListingIsGone ==
  /\ \A i \in 1..Len(tasks) :
        (Answered(i, "deleteCar", "select") /\ ~tasks[i].resp[1].error)
          => tasks[i].carId \notin RowIds(tasks[i].resp[1].data)
  /\ \A i \in 1..Len(tasks) :
        (Answered(i, "deleteCar", "delete") /\ tasks[i].resp[1].affected = 0)
          => tasks[i].resp[1].error
====
